---- MODULE Spec2Model ----
(***************************************************************************)
(* Model of fibonacci-starter (src/src/main.rs): the execution-trace       *)
(* builder, the public-input extractor, the AIR constraint definition and  *)
(* the orchestration in main.                                              *)
(*                                                                         *)
(* Field elements of Fp (p = 18446744069414584321 = 2^64 - 2^32 + 1) are   *)
(* kept as four 16-bit limbs, least significant first, so that every       *)
(* intermediate value is a small integer while the arithmetic is exactly   *)
(* arithmetic modulo p.                                                    *)
(***************************************************************************)
EXTENDS Integers, Sequences

\* ------------------------------------------------------------------ bounds
\* largest log2 of a power-of-two input n handed to build_fib_matrix
MaxLogN == 7
\* inputs 0..SmallN cover the values that are not powers of two
SmallN == 9

\* ------------------------------------------------------- field Fp (limbs)
Base == 65536

NONE == <<>>

\* p = 0xFFFFFFFF00000001
Modulus == <<1, 0, 65535, 65535>>

Zero == <<0, 0, 0, 0>>

\* Fp::one()
One == <<1, 0, 0, 0>>

\* the field's generator of its subgroup of order 2^32,
\* 7^((p-1)/2^32) = 1753635133440165772, from which every radix-2 domain is derived
TWO_ADIC_ROOT_OF_UNITY == <<34700, 55896, 10716, 6230>>

TWO_ADICITY == 32

\* the element of a one-element set; { e(v) : v \in {arg} } computes arg once,
\* as a value, before e uses it
Pick(S) == CHOOSE r \in S : TRUE

\* x + y as an unreduced five-limb integer
WideAdd(x, y) ==
    LET s0 == x[1] + y[1]
        s1 == x[2] + y[2] + (s0 \div Base)
        s2 == x[3] + y[3] + (s1 \div Base)
        s3 == x[4] + y[4] + (s2 \div Base)
    IN  <<s0 % Base, s1 % Base, s2 % Base, s3 % Base, s3 \div Base>>

\* w >= p for a five-limb integer w
WideGeqModulus(w) ==
    \/ w[5] > 0
    \/ /\ w[4] = 65535
       /\ w[3] = 65535
       /\ (w[2] > 0 \/ w[1] >= 1)

\* w - p for a five-limb integer w with p <= w < 2p, as four limbs
WideSubModulus(w) ==
    LET d0 == w[1] - Modulus[1]
        b0 == IF d0 < 0 THEN 1 ELSE 0
        d1 == w[2] - Modulus[2] - b0
        b1 == IF d1 < 0 THEN 1 ELSE 0
        d2 == w[3] - Modulus[3] - b1
        b2 == IF d2 < 0 THEN 1 ELSE 0
        d3 == w[4] + Base * w[5] - Modulus[4] - b2
    IN  <<d0 + Base * b0, d1 + Base * b1, d2 + Base * b2, d3 % Base>>

\* a five-limb integer below 2p brought into 0 .. p-1
FpNormalize(w) ==
    IF WideGeqModulus(w) THEN WideSubModulus(w) ELSE <<w[1], w[2], w[3], w[4]>>

\* a + b in Fp
FpAdd(a, b) == Pick({FpNormalize(w) : w \in {WideAdd(x, y) : x \in {a}, y \in {b}}})

\* p - x for a reduced x, and 0 for x = 0
NegLimbs(x) ==
    IF x = Zero THEN Zero
    ELSE LET d0 == Modulus[1] - x[1]
             b0 == IF d0 < 0 THEN 1 ELSE 0
             d1 == Modulus[2] - x[2] - b0
             b1 == IF d1 < 0 THEN 1 ELSE 0
             d2 == Modulus[3] - x[3] - b1
             b2 == IF d2 < 0 THEN 1 ELSE 0
             d3 == Modulus[4] - x[4] - b2
         IN  <<d0 + Base * b0, d1 + Base * b1, d2 + Base * b2, d3>>

\* -a in Fp
FpNeg(a) == Pick({NegLimbs(x) : x \in {a}})

\* a - b in Fp
FpSub(a, b) == FpAdd(a, FpNeg(b))

\* the eight bytes of a field element, least significant first
Bytes(a) ==
    <<a[1] % 256, a[1] \div 256, a[2] % 256, a[2] \div 256,
      a[3] % 256, a[3] \div 256, a[4] % 256, a[4] \div 256>>

\* term j of column k of the schoolbook product of two byte strings
ProdTerm(x, y, j, k) == IF k - j >= 0 /\ k - j <= 7 THEN x[j + 1] * y[k - j + 1] ELSE 0

\* column k (weight 256^k) of the schoolbook product, before carries
ProdCol(x, y, k) ==
    ProdTerm(x, y, 0, k) + ProdTerm(x, y, 1, k) + ProdTerm(x, y, 2, k) + ProdTerm(x, y, 3, k)
    + ProdTerm(x, y, 4, k) + ProdTerm(x, y, 5, k) + ProdTerm(x, y, 6, k) + ProdTerm(x, y, 7, k)

\* the product of two eight-byte strings as sixteen bytes, least significant first
MulBytes(x, y) ==
    LET c0 == ProdCol(x, y, 0)
        c1 == ProdCol(x, y, 1) + (c0 \div 256)
        c2 == ProdCol(x, y, 2) + (c1 \div 256)
        c3 == ProdCol(x, y, 3) + (c2 \div 256)
        c4 == ProdCol(x, y, 4) + (c3 \div 256)
        c5 == ProdCol(x, y, 5) + (c4 \div 256)
        c6 == ProdCol(x, y, 6) + (c5 \div 256)
        c7 == ProdCol(x, y, 7) + (c6 \div 256)
        c8 == ProdCol(x, y, 8) + (c7 \div 256)
        c9 == ProdCol(x, y, 9) + (c8 \div 256)
        c10 == ProdCol(x, y, 10) + (c9 \div 256)
        c11 == ProdCol(x, y, 11) + (c10 \div 256)
        c12 == ProdCol(x, y, 12) + (c11 \div 256)
        c13 == ProdCol(x, y, 13) + (c12 \div 256)
        c14 == ProdCol(x, y, 14) + (c13 \div 256)
        c15 == c14 \div 256
    IN  <<c0 % 256, c1 % 256, c2 % 256, c3 % 256, c4 % 256, c5 % 256, c6 % 256, c7 % 256,
          c8 % 256, c9 % 256, c10 % 256, c11 % 256, c12 % 256, c13 % 256, c14 % 256, c15>>

\* the 128-bit product a * b as sixteen bytes
WideMul(a, b) == Pick({MulBytes(x, y) : x \in {Bytes(a)}, y \in {Bytes(b)}})

\* a 128-bit integer reduced modulo p, using 2^64 = 2^32 - 1 and 2^96 = -1 (mod p):
\*   lo + 2^64 * mid + 2^96 * hi  =  lo + 2^32 * mid - mid - hi
FpReduce(w) ==
    LET lo == <<w[1] + 256 * w[2], w[3] + 256 * w[4], w[5] + 256 * w[6], w[7] + 256 * w[8], 0>>
        mid == <<w[9] + 256 * w[10], w[11] + 256 * w[12], 0, 0>>
        midshift == <<0, 0, w[9] + 256 * w[10], w[11] + 256 * w[12]>>
        hi == <<w[13] + 256 * w[14], w[15] + 256 * w[16], 0, 0>>
    IN  FpAdd(FpSub(FpSub(FpNormalize(lo), hi), mid), midshift)

\* a * b in Fp
FpMul(a, b) == Pick({FpReduce(w) : w \in {WideMul(x, y) : x \in {a}, y \in {b}}})

RECURSIVE PowLimbs(_, _)
\* x^e for a natural exponent e, by square and multiply
PowLimbs(x, e) ==
    IF e = 0 THEN One
    ELSE Pick({IF e % 2 = 1 THEN FpMul(FpMul(h, h), x) ELSE FpMul(h, h) :
                  h \in {PowLimbs(x, e \div 2)}})

\* a^e in Fp
FpPow(a, e) == Pick({PowLimbs(x, e) : x \in {a}})

RECURSIVE SquareLimbs(_, _)
\* x^(2^k)
SquareLimbs(x, k) ==
    IF k = 0 THEN x ELSE Pick({SquareLimbs(sq, k - 1) : sq \in {FpMul(x, x)}})

\* a^(2^k) in Fp
FpSquareTimes(a, k) == Pick({SquareLimbs(x, k) : x \in {a}})

\* ------------------------------------------------------------- usize help
RECURSIVE is_power_of_two(_)
\* usize::is_power_of_two: exactly one bit set
is_power_of_two(m) ==
    IF m <= 0 THEN FALSE
    ELSE IF m = 1 THEN TRUE
    ELSE m % 2 = 0 /\ is_power_of_two(m \div 2)

RECURSIVE Log2(_)
Log2(m) == IF m <= 1 THEN 0 ELSE 1 + Log2(m \div 2)

\* Matrix::num_rows of a single-column matrix
num_rows(m) == Len(m)

\* Matrix::get_row(r)[0], rows counted from 0
get_row(m, r) == m[r + 1]

\* ------------------------------------------------- algebraic expressions
\* AlgebraicExpression::X
X == [op |-> "X"]

\* AlgebraicExpression::Constant(FieldConstant::Fp(v))
Constant(v) == [op |-> "Constant", value |-> v]

\* AlgebraicExpression::Trace(column, row_offset)
Trace(col, row_offset) == [op |-> "Trace", column |-> col, row_offset |-> row_offset]

\* e.pow(k)
ExprPow(e, k) == [op |-> "Pow", base |-> e, exp |-> k]

\* l - r
ExprSub(l, r) == [op |-> "Sub", lhs |-> l, rhs |-> r]

\* l + r
ExprAdd(l, r) == [op |-> "Add", lhs |-> l, rhs |-> r]

RECURSIVE Eval(_, _, _, _)
\* value of expression e at the point x, which is the domain point of row `row`
\* of the single-column trace `cols` (row offsets wrap around the domain)
Eval(e, x, row, cols) ==
    CASE e.op = "X" -> x
      [] e.op = "Constant" -> e.value
      [] e.op = "Trace" -> get_row(cols, (row + e.row_offset + Len(cols)) % Len(cols))
      [] e.op = "Pow" -> FpPow(Eval(e.base, x, row, cols), e.exp)
      [] e.op = "Sub" -> FpSub(Eval(e.lhs, x, row, cols), Eval(e.rhs, x, row, cols))
      [] e.op = "Add" -> FpAdd(Eval(e.lhs, x, row, cols), Eval(e.rhs, x, row, cols))

RECURSIVE TraceOffsets(_)
\* the row offsets of the trace cells an expression refers to
TraceOffsets(e) ==
    CASE e.op = "X" -> {}
      [] e.op = "Constant" -> {}
      [] e.op = "Trace" -> {e.row_offset}
      [] e.op = "Pow" -> TraceOffsets(e.base)
      [] e.op = "Sub" -> TraceOffsets(e.lhs) \cup TraceOffsets(e.rhs)
      [] e.op = "Add" -> TraceOffsets(e.lhs) \cup TraceOffsets(e.rhs)

\* ------------------------------------------------------ evaluation domain
\* Air::trace_domain: the radix-2 subgroup whose size is the trace length
trace_domain(a) ==
    [size |-> a.info.trace_len,
     group_gen |-> FpSquareTimes(TWO_ADIC_ROOT_OF_UNITY, TWO_ADICITY - Log2(a.info.trace_len))]

\* EvaluationDomain::element(k) = group_gen^k
element(d, k) == FpPow(d.group_gen, k)

\* ---------------------------------------------------------------- state
VARIABLES
    n,               \* the argument of build_fib_matrix
    pc,              \* position of the run
    column,          \* build_fib_matrix: the Vec being filled
    i,               \* build_fib_matrix: the loop index
    fib_matrix,      \* main: the matrix returned by build_fib_matrix; NONE when absent or moved
    trace,           \* main: FibTrace.execution_trace; NONE when absent or moved
    prover_trace,    \* generate_proof: the trace it was given by value; NONE outside the call
    pub_inputs,      \* generate_proof: the value returned by get_pub_inputs
    air,             \* the FibAir built by FibAir::new
    locals,          \* constraints(): its local expressions
    constraint_list, \* the Vec returned by constraints(); NONE while it has not returned
    gen_result,      \* result of generate_proof: NONE, "Ok" or "Err"
    proof,           \* main: the Proof
    verify_result,   \* result of proof.verify(): NONE, "Ok" or "Err"
    gen_calls,       \* number of generate_proof invocations
    verify_calls     \* number of verify invocations

vars == <<n, pc, column, i, fib_matrix, trace, prover_trace, pub_inputs, air, locals,
          constraint_list, gen_result, proof, verify_result, gen_calls, verify_calls>>

builder_vars == <<column, i>>
engine_vars == <<prover_trace, pub_inputs, air, locals, constraint_list>>
outcome_vars == <<gen_result, proof, verify_result, gen_calls, verify_calls>>

\* main passes n = 2^16; the model runs main for every n of NInputs
NInputs == (0 .. SmallN) \cup {2 ^ k : k \in 0 .. MaxLogN}

Init ==
    /\ n \in NInputs
    /\ pc = "main_build"
    /\ column = NONE
    /\ i = 0
    /\ fib_matrix = NONE
    /\ trace = NONE
    /\ prover_trace = NONE
    /\ pub_inputs = NONE
    /\ air = NONE
    /\ locals = NONE
    /\ constraint_list = NONE
    /\ gen_result = NONE
    /\ proof = NONE
    /\ verify_result = NONE
    /\ gen_calls = 0
    /\ verify_calls = 0

\* ------------------------------------------------------ build_fib_matrix
\* entry: the assertion and the two initial pushes
build_fib_matrix_enter ==
    /\ pc = "main_build"
    /\ IF is_power_of_two(n)
       THEN /\ column' = <<One, One>>
            /\ i' = 2
            /\ pc' = "build_loop"
       ELSE /\ pc' = "panic_assert"
            /\ UNCHANGED <<column, i>>
    /\ UNCHANGED <<n, fib_matrix, trace, engine_vars, outcome_vars>>

\* the loop body with the two operands taken from the same row
build_fib_matrix_push_same_row ==
    /\ pc = "build_loop"
    /\ i < n
    /\ column' = Append(column, FpAdd(get_row(column, i - 1), get_row(column, i - 1)))
    /\ i' = i + 1
    /\ UNCHANGED <<n, pc, fib_matrix, trace, engine_vars, outcome_vars>>

\* one iteration of `for i in 2..n`
build_fib_matrix_push ==
    /\ pc = "build_loop"
    /\ i < n
    /\ column' = Append(column, FpAdd(get_row(column, i - 1), get_row(column, i - 2)))
    /\ i' = i + 1
    /\ UNCHANGED <<n, pc, fib_matrix, trace, engine_vars, outcome_vars>>

\* loop exit and Matrix::new(vec![column])
build_fib_matrix_return ==
    /\ pc = "build_loop"
    /\ i >= n
    /\ fib_matrix' = column
    /\ column' = NONE
    /\ pc' = "main_new_trace"
    /\ UNCHANGED <<n, i, trace, engine_vars, outcome_vars>>

\* ------------------------------------------------------------ FibTrace
\* FibProver::new(proof_options) and FibTrace::new(fib_matrix): the matrix moves into the trace
FibTrace_new ==
    /\ pc = "main_new_trace"
    /\ trace' = fib_matrix
    /\ fib_matrix' = NONE
    /\ pc' = "main_generate"
    /\ UNCHANGED <<n, builder_vars, engine_vars, outcome_vars>>

\* last_fib_number reading the row before the last one
last_fib_number_off_by_one(t) ==
    LET rows == num_rows(t)
    IN  get_row(t, rows - 2)

\* FibTrace::last_fib_number
last_fib_number(t) ==
    LET rows == num_rows(t)
    IN  get_row(t, rows - 1)

\* FibProver::get_pub_inputs
get_pub_inputs(t) == last_fib_number(t)

\* ------------------------------------------------------- proof generation
\* generate_proof called with a borrowed trace, which main keeps
generate_proof_by_ref ==
    /\ pc = "main_generate"
    /\ prover_trace' = trace
    /\ gen_calls' = gen_calls + 1
    /\ pc' = "prove_pub_inputs"
    /\ UNCHANGED <<n, builder_vars, fib_matrix, trace, pub_inputs, air, locals,
                   constraint_list, gen_result, proof, verify_result, verify_calls>>

\* main: prover.generate_proof(trace); the trace is passed by value
generate_proof ==
    /\ pc = "main_generate"
    /\ prover_trace' = trace
    /\ trace' = NONE
    /\ gen_calls' = gen_calls + 1
    /\ pc' = "prove_pub_inputs"
    /\ UNCHANGED <<n, builder_vars, fib_matrix, pub_inputs, air, locals, constraint_list,
                   gen_result, proof, verify_result, verify_calls>>

\* generate_proof asks the prover for the public input of the trace
prover_get_pub_inputs ==
    /\ pc = "prove_pub_inputs"
    /\ pub_inputs' = get_pub_inputs(prover_trace)
    /\ pc' = "prove_air_new"
    /\ UNCHANGED <<n, builder_vars, fib_matrix, trace, prover_trace, air, locals,
                   constraint_list, outcome_vars>>

\* FibAir::new(info, input, options)
FibAir_new ==
    /\ pc = "prove_air_new"
    /\ air' = [info |-> [trace_len |-> num_rows(prover_trace)], input |-> pub_inputs]
    /\ pc' = "air_constraints"
    /\ UNCHANGED <<n, builder_vars, fib_matrix, trace, prover_trace, pub_inputs, locals,
                   constraint_list, outcome_vars>>

\* the locals with the last row addressed one position too far
constraints_locals_last_off_by_one(a) ==
    LET one == Constant(One)
        trace_xs == trace_domain(a)
        size == trace_xs.size
    IN  [one |-> one,
         claimed_nth_fib_num |-> Constant(a.input),
         trace_xs |-> trace_xs,
         vanish_all_rows |-> ExprSub(ExprPow(X, size), one),
         vanish_first_row |-> ExprSub(X, Constant(element(trace_xs, 0))),
         vanish_second_row |-> ExprSub(X, Constant(element(trace_xs, 1))),
         vanish_last_row |-> ExprSub(X, Constant(element(trace_xs, size))),
         curr_row |-> Trace(0, 0),
         before_row |-> Trace(0, -1),
         two_before_row |-> Trace(0, -2)]

\* FibAir::constraints, the expressions built before the vec! (lines 115-139)
constraints_locals(a) ==
    LET one == Constant(One)
        trace_xs == trace_domain(a)
        size == trace_xs.size
    IN  [one |-> one,
         claimed_nth_fib_num |-> Constant(a.input),
         trace_xs |-> trace_xs,
         vanish_all_rows |-> ExprSub(ExprPow(X, size), one),
         vanish_first_row |-> ExprSub(X, Constant(element(trace_xs, 0))),
         vanish_second_row |-> ExprSub(X, Constant(element(trace_xs, 1))),
         vanish_last_row |-> ExprSub(X, Constant(element(trace_xs, size - 1))),
         curr_row |-> Trace(0, 0),
         before_row |-> Trace(0, -1),
         two_before_row |-> Trace(0, -2)]

\* FibAir::constraints as it stands: the locals are built, then todo!() panics
constraints ==
    /\ pc = "air_constraints"
    /\ locals' = constraints_locals(air)
    /\ pc' = "panic_todo"
    /\ UNCHANGED <<n, builder_vars, fib_matrix, trace, prover_trace, pub_inputs, air,
                   constraint_list, outcome_vars>>

Next ==
    \/ build_fib_matrix_enter
    \/ build_fib_matrix_push
    \/ build_fib_matrix_return
    \/ FibTrace_new
    \/ generate_proof
    \/ prover_get_pub_inputs
    \/ FibAir_new
    \/ constraints

Spec == Init /\ [][Next]_vars

\* --------------------------------------------- the placeholder filled in
(***************************************************************************)
(* Second specification: the same program with the todo!() of              *)
(* FibAir::constraints replaced by the four constraints of the design      *)
(* (boundary row 0, boundary row 1, transition rows 2..n-1, boundary last  *)
(* row) and the proving engine behaving as its contract says.  It exists   *)
(* only to make the part of main behind generate_proof reachable.          *)
(***************************************************************************)

\* the constraint list of the design: raw difference and the rows it applies at
filled_constraints(l) ==
    LET size == l.trace_xs.size
    IN  << [kind |-> "boundary", raw |-> ExprSub(l.curr_row, l.one), rows |-> {0}],
           [kind |-> "boundary", raw |-> ExprSub(l.curr_row, l.one), rows |-> {1}],
           [kind |-> "transition",
            raw |-> ExprSub(l.curr_row, ExprAdd(l.before_row, l.two_before_row)),
            rows |-> 2 .. (size - 1)],
           [kind |-> "boundary", raw |-> ExprSub(l.curr_row, l.claimed_nth_fib_num),
            rows |-> {size - 1}] >>

\* FibAir::constraints with the placeholder filled in
constraints_filled ==
    /\ pc = "air_constraints"
    /\ locals' = constraints_locals(air)
    /\ constraint_list' = filled_constraints(constraints_locals(air))
    /\ pc' = "prove_check"
    /\ UNCHANGED <<n, builder_vars, fib_matrix, trace, prover_trace, pub_inputs, air,
                   outcome_vars>>

\* every constraint evaluates to zero on every row it applies at
satisfied(list, t, d) ==
    \A c \in 1 .. Len(list) :
        \A r \in list[c].rows :
            Eval(list[c].raw, element(d, r), r, t) = Zero

\* the engine finishes generate_proof: Err when a constraint is violated, otherwise
\* a Proof or an engine-reported error; the trace it owned is dropped on return
engine_prove ==
    /\ pc = "prove_check"
    /\ \E res \in (IF satisfied(constraint_list, prover_trace, locals.trace_xs)
                   THEN {"Ok", "Err"} ELSE {"Err"}) :
           gen_result' = IF res = "Ok"
                         THEN [tag |-> "Ok",
                               proof |-> [public_inputs |-> air.input, trace_info |-> air.info]]
                         ELSE [tag |-> "Err"]
    /\ prover_trace' = NONE
    /\ pub_inputs' = NONE
    /\ air' = NONE
    /\ locals' = NONE
    /\ constraint_list' = NONE
    /\ pc' = "main_unwrap_proof"
    /\ UNCHANGED <<n, builder_vars, fib_matrix, trace, proof, verify_result, gen_calls,
                   verify_calls>>

\* the result of generate_proof used without looking at its tag
unwrap_proof_ignore_err ==
    /\ pc = "main_unwrap_proof"
    /\ IF gen_result.tag = "Ok"
       THEN proof' = gen_result.proof
       ELSE UNCHANGED proof
    /\ pc' = "main_verify"
    /\ UNCHANGED <<n, builder_vars, fib_matrix, trace, engine_vars, gen_result,
                   verify_result, gen_calls, verify_calls>>

\* main: `.unwrap()` on the result of generate_proof
unwrap_proof ==
    /\ pc = "main_unwrap_proof"
    /\ IF gen_result.tag = "Ok"
       THEN /\ proof' = gen_result.proof
            /\ pc' = "main_verify"
       ELSE /\ pc' = "panic_unwrap_proof"
            /\ UNCHANGED proof
    /\ UNCHANGED <<n, builder_vars, fib_matrix, trace, engine_vars, gen_result,
                   verify_result, gen_calls, verify_calls>>

\* main: proof.verify()
verify ==
    /\ pc = "main_verify"
    /\ verify_calls' = verify_calls + 1
    /\ pc' = "verify_check"
    /\ UNCHANGED <<n, builder_vars, fib_matrix, trace, engine_vars, gen_result, proof,
                   verify_result, gen_calls>>

\* the engine finishes verify: acceptance or an engine-reported error
engine_verify ==
    /\ pc = "verify_check"
    /\ \E res \in {"Ok", "Err"} : verify_result' = res
    /\ pc' = "main_unwrap_verify"
    /\ UNCHANGED <<n, builder_vars, fib_matrix, trace, engine_vars, gen_result, proof,
                   gen_calls, verify_calls>>

\* main: `.unwrap()` on the result of verify
unwrap_verify ==
    /\ pc = "main_unwrap_verify"
    /\ pc' = IF verify_result = "Ok" THEN "done" ELSE "panic_unwrap_verify"
    /\ UNCHANGED <<n, builder_vars, fib_matrix, trace, engine_vars, outcome_vars>>

NextFilled ==
    \/ build_fib_matrix_enter
    \/ build_fib_matrix_push
    \/ build_fib_matrix_return
    \/ FibTrace_new
    \/ generate_proof
    \/ prover_get_pub_inputs
    \/ FibAir_new
    \/ constraints_filled
    \/ engine_prove
    \/ unwrap_proof
    \/ verify
    \/ engine_verify
    \/ unwrap_verify

SpecFilled == Init /\ [][NextFilled]_vars

\* ------------------------------------------------------------ properties
\* c is the sum of a and b in the field: c is reduced and a + b = c or a + b = c + p
IsFieldSum(a, b, c) ==
    /\ ~WideGeqModulus(<<c[1], c[2], c[3], c[4], 0>>)
    /\ \/ WideAdd(a, b) = <<c[1], c[2], c[3], c[4], 0>>
       \/ WideAdd(a, b) = WideAdd(c, Modulus)

\* n is one of 2, 4, 8, ...
IsPowerOfTwoAtLeastTwo == \E k \in 1 .. 30 : n = 2 ^ k

\* the private trace, wherever it currently lives
PrivateTraceGone ==
    /\ column = NONE
    /\ fib_matrix = NONE
    /\ trace = NONE
    /\ prover_trace = NONE

\* the run has entered FibAir::constraints and left it again
ConstraintsLeft ==
    pc \notin {"main_build", "build_loop", "panic_assert", "main_new_trace", "main_generate",
               "prove_pub_inputs", "prove_air_new", "air_constraints"}

TerminalPcs == {"panic_assert", "panic_todo", "panic_unwrap_proof", "panic_unwrap_verify", "done"}

VerificationPcs == {"main_verify", "verify_check", "main_unwrap_verify", "panic_unwrap_verify", "done"}

\* t is the Fibonacci sequence in the field and ends at the claimed value
ValidFibonacci(t, claim) ==
    /\ get_row(t, 0) = One
    /\ get_row(t, 1) = One
    /\ \A r \in 2 .. (Len(t) - 1) :
           IsFieldSum(get_row(t, r - 1), get_row(t, r - 2), get_row(t, r))
    /\ get_row(t, Len(t) - 1) = claim

\* the trace of the soundness scenario: n = 4 with row 2 overwritten by 5
Tampered4 == <<One, One, <<5, 0, 0, 0>>, <<3, 0, 0, 0>>>>

\* C1: for a power of two n >= 2 the matrix returned by build_fib_matrix has exactly
\* n rows, rows 0 and 1 are 1, and every later row is the field sum (mod p) of the
\* two rows before it.
C1_TraceIsFibonacci ==
    (fib_matrix # NONE /\ IsPowerOfTwoAtLeastTwo) =>
        /\ Len(fib_matrix) = n
        /\ get_row(fib_matrix, 0) = One
        /\ get_row(fib_matrix, 1) = One
        /\ \A r \in 2 .. (n - 1) :
               IsFieldSum(get_row(fib_matrix, r - 1), get_row(fib_matrix, r - 2),
                          get_row(fib_matrix, r))

\* C1 witness: a returned trace long enough that some row wrapped around p
C1_Witness ==
    /\ fib_matrix # NONE
    /\ IsPowerOfTwoAtLeastTwo
    /\ \E r \in 2 .. (Len(fib_matrix) - 1) :
           WideGeqModulus(WideAdd(get_row(fib_matrix, r - 1), get_row(fib_matrix, r - 2)))

\* C2: the public input obtained by get_pub_inputs, the input stored in the FibAir and
\* the claimed constant built in constraints() all equal the value in the last row of
\* the trace handed to the prover.
C2_PubInputIsLastRow ==
    /\ pub_inputs # NONE => pub_inputs = prover_trace[Len(prover_trace)]
    /\ air # NONE => air.input = prover_trace[Len(prover_trace)]
    /\ locals # NONE => locals.claimed_nth_fib_num = Constant(prover_trace[Len(prover_trace)])

\* C2 witness: a public input taken from a trace whose last two rows differ
C2_Witness ==
    /\ pub_inputs # NONE
    /\ air # NONE
    /\ Len(prover_trace) >= 4
    /\ prover_trace[Len(prover_trace)] # prover_trace[Len(prover_trace) - 1]

\* C3 (as claimed): once constraints() has been called it has returned a list of four
\* expressions that all hold where they apply exactly when the trace is a valid
\* Fibonacci sequence ending at the public input.
C3_ConstraintsReturned ==
    ConstraintsLeft =>
        /\ constraint_list # NONE
        /\ Len(constraint_list) = 4
        /\ prover_trace # NONE =>
               (satisfied(constraint_list, prover_trace, locals.trace_xs)
                    <=> ValidFibonacci(prover_trace, air.input))

\* C4 (as claimed): a run on a power of two n >= 2 ends, when it ends, with a
\* generated and verified proof.
C4_Completeness ==
    (IsPowerOfTwoAtLeastTwo /\ pc \in TerminalPcs) => pc = "done"

\* C5 (as claimed): when n is not a power of two, or n < 2, build_fib_matrix stops at
\* its precondition and no trace is built.
C5_RejectsBadN ==
    (n < 2 \/ ~IsPowerOfTwoAtLeastTwo) =>
        /\ pc \in {"main_build", "panic_assert"}
        /\ column = NONE
        /\ fib_matrix = NONE

\* C6 (as claimed): for n = 4 the list returned by constraints() holds a transition
\* constraint whose value at row 2 of the tampered trace is non-zero, and no proof
\* is produced.
C6_TamperedRowDetected ==
    (n = 4 /\ ConstraintsLeft) =>
        /\ constraint_list # NONE
        /\ \E c \in 1 .. Len(constraint_list) :
               /\ constraint_list[c].kind = "transition"
               /\ Eval(constraint_list[c].raw, element(locals.trace_xs, 2), 2, Tampered4) # Zero
        /\ proof = NONE

C9_TransitionDefinedForTwo ==
    (n = 2 /\ ConstraintsLeft) =>
        /\ constraint_list # NONE
        /\ \E c \in 1 .. Len(constraint_list) :
               /\ constraint_list[c].kind = "transition"
               /\ \A r \in constraint_list[c].rows :
                      Eval(constraint_list[c].raw, element(locals.trace_xs, r), r, <<One, One>>) = Zero

\* C10: on the trace domain w^0 .. w^(n-1), X^n - 1 is zero at every point, X - w^0 is
\* zero at row 0 only, X - w^1 at row 1 only and X - w^(n-1) at row n-1 only; the
\* vanishing expressions refer to no trace cell, and the three trace references use
\* the relative offsets 0, -1 and -2.
C10_VanishingExpressions ==
    locals # NONE =>
        LET d == locals.trace_xs
        IN  /\ \A k \in 0 .. (d.size - 1) :
                   LET x == element(d, k)
                   IN  /\ Eval(locals.vanish_all_rows, x, k, NONE) = Zero
                       /\ (Eval(locals.vanish_first_row, x, k, NONE) = Zero) <=> (k = 0)
                       /\ (Eval(locals.vanish_second_row, x, k, NONE) = Zero) <=> (k = 1)
                       /\ (Eval(locals.vanish_last_row, x, k, NONE) = Zero) <=> (k = d.size - 1)
            /\ TraceOffsets(locals.vanish_all_rows) = {}
            /\ TraceOffsets(locals.vanish_first_row) = {}
            /\ TraceOffsets(locals.vanish_second_row) = {}
            /\ TraceOffsets(locals.vanish_last_row) = {}
            /\ TraceOffsets(locals.curr_row) = {0}
            /\ TraceOffsets(locals.before_row) = {-1}
            /\ TraceOffsets(locals.two_before_row) = {-2}

\* C10 witness: the locals of constraints() exist for a domain of at least eight rows
C10_Witness ==
    /\ locals # NONE
    /\ locals.trace_xs.size >= 8
    /\ pc = "panic_todo"

====
